---- MODULE Spec2Model ----
(***************************************************************************)
(* Model of the retry package (octo/retry): the retry execution engine    *)
(* do() of retry.go with its attempt goroutines, callWithTimeout and the   *)
(* outer context, and the shared Budget of budget.go with its two moving   *)
(* rate estimators.                                                        *)
(*                                                                         *)
(* Time is counted in ticks; one bucket (time.Second) is TicksPerSecond    *)
(* ticks.  float64 values are kept as fractions [num, den] of naturals,    *)
(* with den = 0 standing for +Inf (num > 0) and NaN (num = 0).             *)
(***************************************************************************)
EXTENDS Integers, Sequences, FiniteSets, TLC

\* ---------------------------------------------------------------- bounds
\* Clock resolution: ticks per bucket of one second.
TicksPerSecond == 2
\* The clock advances by at most MaxTime ticks during one Do call.
MaxTime == 1
\* Largest attempt cap drawn for opts.Attempts (0 = unbounded is always drawn),
\* and the number of loop iterations explored when the cap is 0.
MaxAttempts == 2
\* Number of checks other Do invocations make on the shared Budget.
MaxOther == 2
\* Number of checks made on a Budget taken alone, and how far its clock runs.
MaxChecks == 4
MaxBudgetTime == 5
\* Number of goroutines calling the methods of one Budget concurrently, the
\* number of calls they make in all, and how far the clock runs meanwhile.
NumCallers == 2
MaxCalls == 3
MaxCallTime == 2
\* Number of options passed to one Do call.
MaxOptions == 3
\* Width in bits of a time.Duration (an int64 in the program), the largest
\* attempt index a delay is computed for, and the number of values drawn for
\* rand.Float64(): k / RandSteps for k below RandSteps.
DurationWidth == 11
MaxDelayAttempt == 6
RandSteps == 4
\* An estimator taken alone: its largest BucketNum, the number of calls made on
\* it and the latest timestamp passed to it, in ticks.
MaxBucketNum == 2
MaxRateOps == 3
MaxRateTime == 12
\* Events added in each second to an estimator fed at a steady pace, and the
\* number of seconds it is fed for.
MaxPace == 3
MaxSeconds == 5

\* ------------------------------------------------------- program constants
\* newMovingRate: BucketNum
DefaultBucketNum == 60
\* time.Time{}: the zero time, lastUpdate of a fresh movingRate
ZeroTime == 0

\* ------------------------------------------------------------ float64
F(n, d) == [num |-> n, den |-> d]
IsNaN(a) == a.num = 0 /\ a.den = 0
\* a / b on non-negative float64 values (x/0 = +Inf, 0/0 = Inf/Inf = NaN)
FDiv(a, b) == F(a.num * b.den, a.den * b.num)
\* a > b; false whenever one side is NaN
FGt(a, b) == a.num * b.den > b.num * a.den
\* a + b on non-negative float64 values (Inf + Inf = Inf, NaN + x = NaN)
FAdd(a, b) ==
    IF a.den = 0 /\ b.den = 0
    THEN (IF IsNaN(a) \/ IsNaN(b) THEN F(0, 0) ELSE F(1, 0))
    ELSE F(a.num * b.den + b.num * a.den, a.den * b.den)

\* a * b and a - b on finite values
FMul(a, b) == F(a.num * b.num, a.den * b.den)
FSub(a, b) == F(a.num * b.den - b.num * a.den, a.den * b.den)
\* math.Pow(a, n) for a finite a and a natural n
RECURSIVE FPow(_, _)
FPow(a, n) == IF n = 0 THEN F(1, 1) ELSE FMul(a, FPow(a, n - 1))

\* ------------------------------------------------------------ movingRate
RECURSIVE SumSeq(_)
SumSeq(s) == IF s = <<>> THEN 0 ELSE Head(s) + SumSeq(Tail(s))

Zeros(n) == [k \in 1..n |-> 0]

\* t.Round(d): nearest multiple of d since the zero time, halfway values up
Round(t, d) == LET r == t % d IN IF r + r < d THEN t - r ELSE t + d - r

\* timeRoundDown without the step back: the nearest multiple of d
timeRoundNearest(t, d) == Round(t, d)

timeRoundDown(t, d) ==
    LET rt == Round(t, d) IN IF rt > t THEN rt - d ELSE rt

newMovingRate ==
    [BucketLength |-> TicksPerSecond, BucketNum |-> DefaultBucketNum,
     counts |-> <<>>, lastUpdate |-> ZeroTime]

\* count() taking the oldest bucket in full also when the history is full
countOldestInFull(mr) == F(SumSeq(mr.counts), 1)

\* count(): events in the window, as a fraction (the oldest bucket is weighted
\* once the history is full)
count(mr) ==
    IF Len(mr.counts) <= mr.BucketNum
    THEN F(SumSeq(mr.counts), 1)
    ELSE LET el == mr.lastUpdate - timeRoundDown(mr.lastUpdate, mr.BucketLength)
         IN F((mr.BucketLength - el) * mr.counts[1]
              + mr.BucketLength * SumSeq(Tail(mr.counts)), mr.BucketLength)

\* second() giving the nominal window also while the history fills up
secondNominal(mr) ==
    IF Len(mr.counts) = 0 THEN F(0, 1)
    ELSE F(mr.BucketNum * mr.BucketLength, TicksPerSecond)

\* second(): length of the window in seconds, as a fraction
second(mr) ==
    IF Len(mr.counts) = 0 THEN F(0, 1)
    ELSE IF Len(mr.counts) <= mr.BucketNum
    THEN F((Len(mr.counts) - 1) * mr.BucketLength
           + (mr.lastUpdate - timeRoundDown(mr.lastUpdate, mr.BucketLength)),
           TicksPerSecond)
    ELSE F(mr.BucketNum * mr.BucketLength, TicksPerSecond)

\* shift with no cap on the number of buckets it appends
shiftLenUncapped(mr, n0) == n0

\* shift(n): the length of the slice "zero" it appends
shiftLen(mr, n0) == IF n0 > mr.BucketNum + 1 THEN mr.BucketNum + 1 ELSE n0

\* shift keeping BucketNum buckets, one fewer than the code keeps
shiftKeepsBucketNum(mr, n0) ==
    LET n == shiftLen(mr, n0)
        app == mr.counts \o Zeros(n)
        del == Len(app) - mr.BucketNum
    IN [mr EXCEPT
          !.counts = IF del > 0 THEN SubSeq(app, del + 1, Len(app)) ELSE app,
          !.lastUpdate = timeRoundDown(mr.lastUpdate, mr.BucketLength)
                         + n * mr.BucketLength]

shift(mr, n0) ==
    LET n == shiftLen(mr, n0)
        app == mr.counts \o Zeros(n)
        del == Len(app) - (mr.BucketNum + 1)
    IN [mr EXCEPT
          !.counts = IF del > 0 THEN SubSeq(app, del + 1, Len(app)) ELSE app,
          !.lastUpdate = timeRoundDown(mr.lastUpdate, mr.BucketLength)
                         + n * mr.BucketLength]

\* forward(t); the deferred assignment sets lastUpdate = t on every path
forward(mr, t) ==
    IF mr.lastUpdate = ZeroTime
    THEN [mr EXCEPT !.counts = <<0>>, !.lastUpdate = t]
    ELSE LET rt == timeRoundDown(t, mr.BucketLength) IN
         IF ~(rt > mr.lastUpdate)
         THEN [mr EXCEPT !.lastUpdate = t]
         ELSE LET n == (rt - timeRoundDown(mr.lastUpdate, mr.BucketLength))
                       \div mr.BucketLength
              IN [shift(mr, n) EXCEPT !.lastUpdate = t]

\* forward(t): the value of n it computes once rt is after lastUpdate, and
\* whether its assertion "n > 0" fails then
forwardN(mr, t) ==
    (timeRoundDown(t, mr.BucketLength) - timeRoundDown(mr.lastUpdate, mr.BucketLength))
        \div mr.BucketLength
forwardPanics(mr, t) ==
    /\ mr.lastUpdate # ZeroTime
    /\ timeRoundDown(t, mr.BucketLength) > mr.lastUpdate
    /\ forwardN(mr, t) <= 0

\* forward(t): the number of buckets it has shift append
forwardLen(mr, t) ==
    IF mr.lastUpdate = ZeroTime THEN 0
    ELSE LET rt == timeRoundDown(t, mr.BucketLength) IN
         IF ~(rt > mr.lastUpdate) THEN 0
         ELSE shiftLen(mr, (rt - timeRoundDown(mr.lastUpdate, mr.BucketLength))
                           \div mr.BucketLength)

\* Add with the guard "not after" in place of "before": a second event at the
\* very instant of the last update is dropped
AddNotAfter(mr, t, n) ==
    IF t <= mr.lastUpdate /\ mr.lastUpdate # ZeroTime THEN mr
    ELSE LET f == forward(mr, t)
         IN [f EXCEPT !.counts[Len(f.counts)] = @ + n]

\* Add(t, n)
Add(mr, t, n) ==
    IF t < mr.lastUpdate THEN mr
    ELSE LET f == forward(mr, t)
         IN [f EXCEPT !.counts[Len(f.counts)] = @ + n]

\* Rate without the test for a timestamp in the past
RateNoGuard(mr, t) ==
    LET f == forward(mr, t)
    IN [mr |-> f, val |-> FDiv(count(f), second(f))]

\* Rate(t): the estimator after the call and the value returned
Rate(mr, t) ==
    IF t < mr.lastUpdate THEN [mr |-> mr, val |-> F(0, 0)]
    ELSE LET f == forward(mr, t)
         IN [mr |-> f, val |-> FDiv(count(f), second(f))]

\* ---------------------------------------------------------------- Budget
\* A *movingRate field is <<>> (nil) or <<mr>>.
NewBudget(rate, ratio) ==
    [Rate |-> rate, Ratio |-> ratio, initialCalls |-> <<>>, retriedCalls |-> <<>>]

\* the lazy initialisation at the head of check
Estimator(p) == IF p = <<>> THEN newMovingRate ELSE p[1]

\* check refusing a retry as soon as one of the two thresholds is exceeded
checkEitherExceeds(b, isRetry, t) ==
    LET ic == Estimator(b.initialCalls)
        rc == Estimator(b.retriedCalls)
    IN IF ~isRetry
       THEN [b |-> [b EXCEPT !.initialCalls = <<Add(ic, t, 1)>>,
                             !.retriedCalls = <<rc>>],
             ok |-> TRUE]
       ELSE LET ir == Rate(ic, t)
                rr == Rate(rc, t)
            IN IF FGt(ir.val, b.Rate) \/ FGt(FDiv(rr.val, ir.val), b.Ratio)
               THEN [b |-> [b EXCEPT !.initialCalls = <<ir.mr>>,
                                     !.retriedCalls = <<rr.mr>>],
                     ok |-> FALSE]
               ELSE [b |-> [b EXCEPT !.initialCalls = <<ir.mr>>,
                                     !.retriedCalls = <<Add(rr.mr, t, 1)>>],
                     ok |-> TRUE]

\* check recording a retry also when it refuses it
checkRecordsRefused(b, isRetry, t) ==
    LET ic == Estimator(b.initialCalls)
        rc == Estimator(b.retriedCalls)
    IN IF ~isRetry
       THEN [b |-> [b EXCEPT !.initialCalls = <<Add(ic, t, 1)>>,
                             !.retriedCalls = <<rc>>],
             ok |-> TRUE]
       ELSE LET ir == Rate(ic, t)
                rr == Rate(rc, t)
            IN [b |-> [b EXCEPT !.initialCalls = <<ir.mr>>,
                                !.retriedCalls = <<Add(rr.mr, t, 1)>>],
                ok |-> ~(FGt(ir.val, b.Rate) /\ FGt(FDiv(rr.val, ir.val), b.Ratio))]

\* (b *Budget).check(isRetry) on a non-nil Budget, at time t, under b.mu:
\* the Budget after the call and the value returned
check(b, isRetry, t) ==
    LET ic == Estimator(b.initialCalls)
        rc == Estimator(b.retriedCalls)
    IN IF ~isRetry
       THEN [b |-> [b EXCEPT !.initialCalls = <<Add(ic, t, 1)>>,
                             !.retriedCalls = <<rc>>],
             ok |-> TRUE]
       ELSE LET ir == Rate(ic, t)
                rr == Rate(rc, t)
            IN IF FGt(ir.val, b.Rate) /\ FGt(FDiv(rr.val, ir.val), b.Ratio)
               THEN [b |-> [b EXCEPT !.initialCalls = <<ir.mr>>,
                                     !.retriedCalls = <<rr.mr>>],
                     ok |-> FALSE]
               ELSE [b |-> [b EXCEPT !.initialCalls = <<ir.mr>>,
                                     !.retriedCalls = <<Add(rr.mr, t, 1)>>],
                     ok |-> TRUE]

\* overload recording every call as an initial call
overloadAllInitial(b, isRetry, t) ==
    LET ic == Estimator(b.initialCalls)
        rc == Estimator(b.retriedCalls)
        ir == Rate(Add(ic, t, 1), t)
        rr == Rate(rc, t)
        totalRate == FAdd(ir.val, rr.val)
    IN [b |-> [b EXCEPT !.initialCalls = <<ir.mr>>, !.retriedCalls = <<rr.mr>>],
        ok |-> FGt(totalRate, b.Rate) /\ FGt(FDiv(rr.val, totalRate), b.Ratio)]

\* overload taking the ratio of retries to initial calls, as sendOK does
overloadRatioToInitial(b, isRetry, t) ==
    LET ic == Estimator(b.initialCalls)
        rc == Estimator(b.retriedCalls)
        ir == Rate(IF isRetry THEN ic ELSE Add(ic, t, 1), t)
        rr == Rate(IF isRetry THEN Add(rc, t, 1) ELSE rc, t)
        totalRate == FAdd(ir.val, rr.val)
    IN [b |-> [b EXCEPT !.initialCalls = <<ir.mr>>, !.retriedCalls = <<rr.mr>>],
        ok |-> FGt(totalRate, b.Rate) /\ FGt(FDiv(rr.val, ir.val), b.Ratio)]

\* (b *Budget).overload(isRetry) on a non-nil Budget (BudgetHandler embeds its
\* Budget by value), at time t, under b.mu: the Budget after the call and the
\* value returned
overload(b, isRetry, t) ==
    LET ic == Estimator(b.initialCalls)
        rc == Estimator(b.retriedCalls)
        ir == Rate(IF isRetry THEN ic ELSE Add(ic, t, 1), t)
        rr == Rate(IF isRetry THEN Add(rc, t, 1) ELSE rc, t)
        totalRate == FAdd(ir.val, rr.val)
    IN [b |-> [b EXCEPT !.initialCalls = <<ir.mr>>, !.retriedCalls = <<rr.mr>>],
        ok |-> FGt(totalRate, b.Rate) /\ FGt(FDiv(rr.val, totalRate), b.Ratio)]

\* ---------------------------------------------------------------- errors
\* An error value: its dynamic type, the attempt that made it (0: none) and,
\* for a permanentError, the dynamic type of the error it embeds.
Err(type, id) == [type |-> type, id |-> id, wrapped |-> "none"]
Nil == Err("nil", 0)
\* errors.New / fmt.Errorf: does not implement Error
ErrorString(id) == Err("errorString", id)
\* a caller's error type implementing Error with Temporary() == false
PermCond(id) == Err("permCond", id)
\* context.Canceled, context.DeadlineExceeded
Canceled == Err("Canceled", 0)
DeadlineExceeded == Err("DeadlineExceeded", 0)
\* errors.New("retry budget exhausted")
BudgetExhausted == Err("budgetExhausted", 0)

\* Abort(err) = permanentError{err}
Abort(e) == [type |-> "permanentError", id |-> e.id, wrapped |-> e.type]
\* p.error of a permanentError p
Embedded(p) == Err(p.wrapped, p.id)

\* err.(Error): the dynamic type has a Temporary() method
IsError(e) == e.type \in {"permanentError", "permCond", "DeadlineExceeded"}
\* Temporary() false for every value that implements Error
TemporaryNever(e) == FALSE
\* retryErr.Temporary(), for a value that implements Error
Temporary(e) == e.type = "DeadlineExceeded"

\* what an invocation of the operation for attempt k may return
CbResults(k) ==
    {Nil, ErrorString(k + 1), PermCond(k + 1), Abort(ErrorString(k + 1)), Abort(Nil)}

\* ---------------------------------------------------------------- options
\* Durations are in milliseconds; a *Budget is the name of the Budget it
\* points to.
OptionKinds == {"Attempts", "backoff", "budget", "Jitter", "Timeout"}

FullJitter == F(1, 1)
EqualJitter == F(1, 2)
WithoutJitter == F(0 - 1, 1)
ExpBackoff(base, max, factor) == [Base |-> base, Max |-> max, Factor |-> factor]

\* intOpts as Do initialises it: the zero value for the fields it leaves out
DefaultOptions ==
    [Attempts |-> 4, backoff |-> ExpBackoff(100, 2000, F(2, 1)),
     Jitter |-> FullJitter, Timeout |-> 0, budget |-> "nil"]

\* An Option value: its type (kind) and its value, held in the field of that
\* name; the other fields are not part of the value.
Opt(kind, val) ==
    [kind |-> kind,
     Attempts |-> IF kind = "Attempts" THEN val ELSE 0,
     backoff |-> IF kind = "backoff" THEN val ELSE ExpBackoff(0, 0, F(0, 1)),
     Jitter |-> IF kind = "Jitter" THEN val ELSE F(0, 1),
     Timeout |-> IF kind = "Timeout" THEN val ELSE 0,
     budget |-> IF kind = "budget" THEN val ELSE "nil"]
OptVal(o) == o[o.kind]

\* apply setting a field only while it still has its initial value: the first
\* option of a kind wins
applyFirstWins(o, io) ==
    IF io[o.kind] = DefaultOptions[o.kind] THEN [io EXCEPT ![o.kind] = OptVal(o)]
    ELSE io

\* o.apply(&intOpts), for each of the five types implementing Option
apply(o, io) == [io EXCEPT ![o.kind] = OptVal(o)]

\* ------------------------------------------------------- backoff and jitter
\* the range of time.Duration
MaxDuration == 2 ^ (DurationWidth - 1) - 1
MinDuration == 0 - 2 ^ (DurationWidth - 1)
\* the builds whose float64 to int64 conversions differ out of range
Archs == {"amd64", "arm64"}

\* time.Duration(f) for a finite float64 f: the fraction is discarded; when
\* the value is out of range the result depends on the implementation (the
\* conversion instruction of amd64 gives the smallest int64, that of arm64
\* saturates)
Duration(f, arch) ==
    LET q == IF f.num >= 0 THEN f.num \div f.den ELSE 0 - ((0 - f.num) \div f.den)
    IN IF q > MaxDuration THEN (IF arch = "amd64" THEN MinDuration ELSE MaxDuration)
       ELSE IF q < MinDuration THEN MinDuration
       ELSE q

\* (b ExpBackoff) delay(attempt)
delay(b, attempt, arch) ==
    LET f == FMul(F(b.Base, 1), FPow(b.Factor, attempt))
        d == Duration(f, arch)
    IN IF d < b.Base THEN b.Base ELSE IF d > b.Max THEN b.Max ELSE d

\* jitter weighting the random part with 1 - j and the fixed part with j
jitterWeightsSwapped(j, d, x, arch) ==
    IF FGt(F(0, 1), j) THEN d
    ELSE LET r == FMul(x, F(d, 1))
         IN Duration(IF FGt(j, F(0, 1)) /\ FGt(F(1, 1), j)
                     THEN FAdd(FMul(FSub(F(1, 1), j), r), FMul(j, F(d, 1)))
                     ELSE r, arch)

\* time.NewTicker(d): it panics when d is not positive
NewTicker(d) == IF d <= 0 THEN "panic" ELSE "armed"

\* (j Jitter) jitter(d), with x the value of rand.Float64()
jitter(j, d, x, arch) ==
    IF FGt(F(0, 1), j) THEN d
    ELSE LET r == FMul(x, F(d, 1))
         IN Duration(IF FGt(j, F(0, 1)) /\ FGt(F(1, 1), j)
                     THEN FAdd(FMul(j, r), FMul(FSub(F(1, 1), j), F(d, 1)))
                     ELSE r, arch)

\* ------------------------------------------------------- HTTP transport
\* net/http status codes named in the transport
StatusNotImplemented == 501
StatusLocked == 423

temporaryErrorCode(c) ==
    (c >= 500 /\ c < 600 /\ c # StatusNotImplemented) \/ c = StatusLocked

permanentErrorCode(c) ==
    (c >= 400 /\ c < 500 /\ c # StatusLocked) \/ c = StatusNotImplemented

\* ---------------------------------------------------------------- contexts
\* The values a context carries: the layers added by context.WithValue and
\* context.WithTimeout on top of context.Background(), innermost last.
Background == <<>>
WithValue(c, key, val) == Append(c, [key |-> key, val |-> val])
\* context.WithTimeout adds a deadline and no value
WithTimeout(c) == Append(c, [key |-> "deadline", val |-> 0])

\* c.Value(key): <<>> for nil, <<v>> for the value of the innermost layer
\* that has the key
RECURSIVE Value(_, _)
Value(c, key) ==
    IF c = <<>> THEN <<>>
    ELSE IF c[Len(c)].key = key THEN <<c[Len(c)].val>>
    ELSE Value(SubSeq(c, 1, Len(c) - 1), key)

contextAttemptKey == "contextAttemptKey"

\* withAttempt storing the one-based number of the attempt
withAttemptOneBased(c, attempt) == WithValue(c, contextAttemptKey, attempt + 1)

withAttempt(c, attempt) == WithValue(c, contextAttemptKey, attempt)

\* Attempt(ctx)
Attempt(c) ==
    LET v == Value(c, contextAttemptKey) IN IF v = <<>> THEN 0 ELSE v[1]

\* ------------------------------------------------------------------ state
VARIABLES
    opts,      \* internalOptions of the Do call: Attempts, Timeout, budget (non-nil?)
    budget,    \* the shared Budget
    now,       \* what time.Now() returned last, in ticks
    ctxErr,    \* ctx.Err() of the outer context (Nil while it is live)
    pc,        \* where do() stands: "loop", "select1", "select2", "done"
    i,         \* loop variable of do()
    err,       \* local variable err of do()
    ret,       \* value do() returned (meaningful when pc = "done")
    tk,        \* the backoff ticker: "off", "armed", "fired"
    hst,       \* per attempt, the goroutine running cb: "none", "running",
               \* "sending" (blocked on its channel send), "exited"
    hres,      \* per attempt, what cb returned
    gst,       \* with a Timeout, the goroutine in callWithTimeout for the current
               \* attempt: "none", "select", "sending", "exited"
    gval,      \* the value callWithTimeout returned
    tctx,      \* Err() of the context derived by callWithTimeout (Nil while live)
    obs,       \* history: the values do() received on ch, one per attempt
    how,       \* history: the return statement do() took ("none" before it returns)
    lastCheck, \* history: the latest call on the Budget (its number, the method
               \* called, isRetry, the value returned)
    others,    \* number of checks made by other Do invocations on the Budget
    callers,   \* per goroutine calling a method of the Budget: where it stands in
               \* the method ("idle" outside), its arguments and local variables,
               \* and (history) the Budget as it was when it took b.mu
    cancelledIn, \* history: the attempt that was in flight when the outer context
               \* was cancelled, as long as its operation has not returned
               \* (NoAttempt otherwise)
    ctx,       \* the values carried by the context passed to Do
    cbctx,     \* per attempt, the values carried by the context passed to cb
    doOpts,    \* Do: the options passed to it (opts ...Option)
    intOpts,   \* Do: its local variable intOpts
    nopt,      \* Do: the number of options applied so far
    dopts,     \* the backoff and Jitter of a Do call, and the build it runs in
    attempt,   \* the attempt index the delay was last computed for (NoAttempt:
               \* none yet)
    unjittered, \* do: delay as opts.delay(i) returned it
    jittered,  \* do: delay as opts.jitter(delay) returned it
    previous,  \* history: the value opts.delay returned for the attempt before
    rnd,       \* history: the value rand.Float64() returned in jitter
    ticker,    \* do: the ticker of the backoff wait: "none", "armed", or "panic"
               \* when time.NewTicker panicked
    mr,        \* a movingRate taken alone
    mrop,      \* history: the latest call on mr (the method, its timestamp, the
               \* value Rate returned, the number of buckets appended)
    nops,      \* number of calls made on mr
    mrfirst,   \* history: the timestamp of the first call on mr (ZeroTime before)
    resp,      \* closure of RoundTrip: the response rt.RoundTrip returned (its
               \* status code, whether it has a Retry-After header)
    rtErr,     \* closure of RoundTrip: the error rt.RoundTrip returned
    cbErr,     \* closure of RoundTrip: what checkResponse returned
    checked,   \* closure of RoundTrip: has checkResponse been called
    steady     \* a client feeding mr at a steady pace: events per second, its
               \* current timestamp, events added at it, seconds fed before it

\* the state of a Do call and of the Budget it shares
program == <<opts, budget, now, ctxErr, pc, i, err, ret, tk, hst, hres, gst, gval,
             tctx, obs, how, lastCheck, others, cancelledIn, callers, ctx, cbctx>>
\* the state of Do while it applies its options
optvars == <<doOpts, intOpts, nopt>>
\* the state of the functions and types taken alone
\* the state of do() as far as the backoff delay goes
delayvars == <<dopts, attempt, unjittered, jittered, previous, rnd, ticker>>
\* the state of a movingRate taken alone and of its client
mrvars == <<mr, mrop, nops, mrfirst, steady>>
\* the state of one HTTP exchange of the Transport
httpvars == <<resp, rtErr, cbErr, checked>>
pure == <<optvars, delayvars, mrvars, httpvars>>

vars == <<program, pure>>

engine == <<pc, i, err, ret, tk, obs, how>>
routines == <<hst, hres, gst, gval, tctx>>

AttemptIdx == 0..(MaxAttempts - 1)
\* no attempt
NoAttempt == 0 - 1
\* the goroutines calling the Budget's methods, and one that is in no call
Callers == 1..NumCallers
IdleCaller ==
    [pc |-> "idle", fn |-> "check", isRetry |-> FALSE, t |-> ZeroTime,
     initialRate |-> F(0, 1), retriedRate |-> F(0, 1), res |-> TRUE, pre |-> <<>>]
StartTime == TicksPerSecond
\* the values time.Now() may return at or after t
TimesFrom(t) == t..(StartTime + MaxTime)

\* Budget.Rate and Budget.Ratio of the Budget passed to Do
Rates == {F(0, 1)}
Ratios == {F(1, 2)}

\* The context passed to Do: one that carries no attempt value and, for the
\* Do calls without Budget, also one that carries one already (Do called from
\* within a retried function, with the context that function was given).
OuterContexts(o) ==
    IF o.budget THEN {Background} ELSE {Background, withAttempt(Background, 1)}

\* the context cb is called with, given the context c of the loop body:
\* callWithTimeout derives its own from c when a Timeout is set
CallbackContext(c) == IF opts.Timeout # 0 THEN WithTimeout(c) ELSE c

DelayIdle ==
    /\ dopts = [backoff |-> DefaultOptions.backoff, Jitter |-> DefaultOptions.Jitter,
                arch |-> "amd64"]
    /\ attempt = NoAttempt
    /\ unjittered = 0
    /\ jittered = 0
    /\ previous = 0
    /\ rnd = F(0, 1)
    /\ ticker = "none"

NoOp == [op |-> "none", t |-> ZeroTime, val |-> F(0, 1), appended |-> 0]
RateIdle ==
    /\ mr = newMovingRate
    /\ mrop = NoOp
    /\ nops = 0
    /\ mrfirst = ZeroTime
    /\ steady = [c |-> 0, t |-> ZeroTime, added |-> 0, seconds |-> 0]

\* a nil *http.Response
NoResponse == [StatusCode |-> 0, RetryAfter |-> FALSE]
HTTPIdle ==
    /\ resp = NoResponse
    /\ rtErr = Nil
    /\ cbErr = Nil
    /\ checked = FALSE

\* no function or type is followed on its own
PureIdle ==
    /\ doOpts = <<>>
    /\ intOpts = DefaultOptions
    /\ nopt = 0
    /\ DelayIdle
    /\ RateIdle
    /\ HTTPIdle

Init ==
    /\ opts \in [Attempts : 0..MaxAttempts, Timeout : {0, 1}, budget : BOOLEAN]
    /\ budget \in {NewBudget(r, q) : r \in Rates, q \in Ratios}
    /\ now = StartTime
    /\ ctxErr = Nil
    /\ pc = "loop"
    /\ i = 0
    /\ err = Nil
    /\ ret = Nil
    /\ tk = "off"
    /\ hst = [k \in AttemptIdx |-> "none"]
    /\ hres = [k \in AttemptIdx |-> Nil]
    /\ gst = "none"
    /\ gval = Nil
    /\ tctx = Nil
    /\ obs = <<>>
    /\ how = "none"
    /\ lastCheck = [n |-> 0, fn |-> "check", isRetry |-> FALSE, ok |-> TRUE]
    /\ others = 0
    /\ cancelledIn = NoAttempt
    /\ callers = [p \in Callers |-> IdleCaller]
    /\ ctx \in OuterContexts(opts)
    /\ cbctx = [k \in AttemptIdx |-> Background]
    /\ PureIdle

\* ------------------------------------------------------------ do(): steps
\* the loop condition with <= for <: one attempt too many
LoopCondOffByOne(k) == k <= opts.Attempts \/ opts.Attempts = 0

\* the loop condition of do()
LoopCond(k) == k < opts.Attempts \/ opts.Attempts = 0

\* every check made as a retry check, the first attempt's included
IsRetryAlways(k) == TRUE

\* the argument do() passes to check
IsRetry(k) == k # 0

\* the check of attempt 0 made on a Budget created anew for the Do call
BudgetCheckFresh(isRetry, t) ==
    IF opts.budget
    THEN check(IF isRetry THEN budget ELSE NewBudget(budget.Rate, budget.Ratio),
               isRetry, t)
    ELSE [b |-> budget, ok |-> TRUE]

\* opts.budget.check(isRetry) at time t: a nil *Budget permits everything
BudgetCheck(isRetry, t) ==
    IF opts.budget THEN check(budget, isRetry, t) ELSE [b |-> budget, ok |-> TRUE]

\* Outcome returning a permanentError as it is, wrapper included
OutcomeNoUnwrap(v) ==
    IF v = Nil THEN [return |-> TRUE, val |-> Nil]
    ELSE IF IsError(v) /\ ~Temporary(v) THEN [return |-> TRUE, val |-> v]
    ELSE [return |-> FALSE, val |-> v]

\* Outcome without the err == nil test: a nil result is retried
OutcomeNilRetried(v) ==
    IF IsError(v) /\ ~Temporary(v)
    THEN [return |-> TRUE,
          val |-> IF v.type = "permanentError" THEN Embedded(v) ELSE v]
    ELSE [return |-> FALSE, val |-> v]

\* what do() does with a value v received on ch
Outcome(v) ==
    IF v = Nil THEN [return |-> TRUE, val |-> Nil]
    ELSE IF IsError(v) /\ ~Temporary(v)
    THEN [return |-> TRUE,
          val |-> IF v.type = "permanentError" THEN Embedded(v) ELSE v]
    ELSE [return |-> FALSE, val |-> v]

\* the previous attempt's error returned when the Budget refuses
RefusalErrorLast == err

\* the error do() returns when the Budget refuses
RefusalError == BudgetExhausted

\* head of the loop: condition, budget check, start of the attempt goroutine
StartAttempt ==
    /\ pc = "loop"
    /\ LoopCond(i)
    /\ i < MaxAttempts
    /\ \E t \in (IF opts.budget THEN TimesFrom(now) ELSE {now}) :
       LET c == BudgetCheck(IsRetry(i), t) IN
       /\ now' = t
       /\ budget' = c.b
       /\ lastCheck' = IF opts.budget
                       THEN [n |-> lastCheck.n + 1, fn |-> "check", isRetry |-> IsRetry(i),
                             ok |-> c.ok]
                       ELSE lastCheck
       /\ IF ~c.ok
          THEN /\ ret' = RefusalError
               /\ pc' = "done"
               /\ how' = "budget"
               /\ UNCHANGED routines
               /\ cbctx' = cbctx
          ELSE /\ hst' = [hst EXCEPT ![i] = "running"]
               /\ cbctx' = [cbctx EXCEPT ![i] = CallbackContext(withAttempt(ctx, i))]
               /\ gst' = IF opts.Timeout # 0 THEN "select" ELSE "none"
               /\ tctx' = IF opts.Timeout # 0 THEN ctxErr ELSE Nil
               /\ pc' = "select1"
               /\ UNCHANGED <<ret, how, hres, gval>>
    /\ UNCHANGED pure /\ UNCHANGED <<opts, ctx, callers, cancelledIn, ctxErr, i, err, tk, obs, others>>

\* do() returning the first error it received when the loop ends
LoopExitReturnsFirst ==
    /\ pc = "loop"
    /\ ~LoopCond(i)
    /\ ret' = IF obs = <<>> THEN err ELSE obs[1]
    /\ pc' = "done"
    /\ how' = "exhausted"
    /\ UNCHANGED pure /\ UNCHANGED <<opts, ctx, cbctx, callers, cancelledIn, budget, now, ctxErr, i, err, tk, obs, lastCheck, others>>
    /\ UNCHANGED routines

\* the loop condition fails: return err
LoopExit ==
    /\ pc = "loop"
    /\ ~LoopCond(i)
    /\ ret' = err
    /\ pc' = "done"
    /\ how' = "exhausted"
    /\ UNCHANGED pure /\ UNCHANGED <<opts, ctx, cbctx, callers, cancelledIn, budget, now, ctxErr, i, err, tk, obs, lastCheck, others>>
    /\ UNCHANGED routines

\* is a value ready on ch, and which
ChReady == IF opts.Timeout # 0 THEN gst = "sending" ELSE hst[i] = "sending"
ChValue == IF opts.Timeout # 0 THEN gval ELSE hres[i]

\* first select, case err = <-ch
DoRecv ==
    /\ pc = "select1"
    /\ ChReady
    /\ err' = ChValue
    /\ obs' = Append(obs, ChValue)
    /\ IF opts.Timeout # 0
       THEN gst' = "exited" /\ gval' = Nil /\ hst' = hst
       ELSE hst' = [hst EXCEPT ![i] = "exited"] /\ gst' = gst /\ gval' = gval
    /\ LET o == Outcome(ChValue) IN
       IF o.return
       THEN /\ ret' = o.val /\ pc' = "done" /\ tk' = tk
            /\ how' = "result"
       ELSE ret' = ret /\ pc' = "select2" /\ tk' = "armed" /\ how' = how
    /\ UNCHANGED pure /\ UNCHANGED <<opts, ctx, cbctx, callers, cancelledIn, budget, now, ctxErr, i, hres, tctx, lastCheck, others>>

\* the first select going on to the backoff wait on cancellation
DoCtxDone1Continues ==
    /\ pc = "select1"
    /\ ctxErr # Nil
    /\ err' = ctxErr
    /\ pc' = "select2"
    /\ tk' = "armed"
    /\ UNCHANGED pure /\ UNCHANGED <<opts, ctx, cbctx, callers, cancelledIn, budget, now, ctxErr, i, ret, obs, how, lastCheck, others>>
    /\ UNCHANGED routines

\* first select, case <-ctx.Done()
DoCtxDone1 ==
    /\ pc = "select1"
    /\ ctxErr # Nil
    /\ ret' = ctxErr
    /\ pc' = "done"
    /\ how' = "ctx1"
    /\ UNCHANGED pure /\ UNCHANGED <<opts, ctx, cbctx, callers, cancelledIn, budget, now, ctxErr, i, err, tk, obs, lastCheck, others>>
    /\ UNCHANGED routines

\* second select, case <-ticker.C, and the loop's i++
DoTicker ==
    /\ pc = "select2"
    /\ tk = "fired"
    /\ tk' = "off"
    /\ i' = i + 1
    /\ pc' = "loop"
    /\ UNCHANGED pure /\ UNCHANGED <<opts, ctx, cbctx, callers, cancelledIn, budget, now, ctxErr, err, ret, obs, how, lastCheck, others>>
    /\ UNCHANGED routines

\* the second select returning err, not ctx.Err(), on cancellation
DoCtxDone2ReturnsErr ==
    /\ pc = "select2"
    /\ ctxErr # Nil
    /\ tk' = "off"
    /\ ret' = err
    /\ pc' = "done"
    /\ how' = IF tk = "armed" THEN "ctx2" ELSE "ctx2late"
    /\ UNCHANGED pure /\ UNCHANGED <<opts, ctx, cbctx, callers, cancelledIn, budget, now, ctxErr, i, err, obs, lastCheck, others>>
    /\ UNCHANGED routines

\* second select, case <-ctx.Done()
DoCtxDone2 ==
    /\ pc = "select2"
    /\ ctxErr # Nil
    /\ tk' = "off"
    /\ ret' = ctxErr
    /\ pc' = "done"
    /\ how' = IF tk = "armed" THEN "ctx2" ELSE "ctx2late"
    /\ UNCHANGED pure /\ UNCHANGED <<opts, ctx, cbctx, callers, cancelledIn, budget, now, ctxErr, i, err, obs, lastCheck, others>>
    /\ UNCHANGED routines

\* ------------------------------------------- goroutines, timers, environment
\* cb returns in the goroutine of attempt k, which then blocks on its send
CbReturn ==
    \E k \in AttemptIdx : \E r \in CbResults(k) :
        /\ hst[k] = "running"
        /\ hst' = [hst EXCEPT ![k] = "sending"]
        /\ hres' = [hres EXCEPT ![k] = r]
        /\ cancelledIn' = IF k = cancelledIn THEN NoAttempt ELSE cancelledIn
        /\ UNCHANGED pure /\ UNCHANGED <<opts, ctx, cbctx, callers, budget, now, ctxErr, gst, gval, tctx, lastCheck, others>>
        /\ UNCHANGED engine

\* callWithTimeout, case err := <-ch; the deferred cancel() ends the context
TimeoutRecv ==
    /\ gst = "select"
    /\ hst[i] = "sending"
    /\ hst' = [hst EXCEPT ![i] = "exited"]
    /\ gst' = "sending"
    /\ gval' = hres[i]
    /\ tctx' = IF tctx = Nil THEN Canceled ELSE tctx
    /\ UNCHANGED pure /\ UNCHANGED <<opts, ctx, cbctx, callers, cancelledIn, budget, now, ctxErr, hres, lastCheck, others>>
    /\ UNCHANGED engine

\* callWithTimeout, case <-ctx.Done()
TimeoutCtxDone ==
    /\ gst = "select"
    /\ tctx # Nil
    /\ gst' = "sending"
    /\ gval' = tctx
    /\ UNCHANGED pure /\ UNCHANGED <<opts, ctx, cbctx, callers, cancelledIn, budget, now, ctxErr, hst, hres, tctx, lastCheck, others>>
    /\ UNCHANGED engine

\* the timer of context.WithTimeout expires
AttemptTimeout ==
    /\ gst = "select"
    /\ tctx = Nil
    /\ tctx' = DeadlineExceeded
    /\ UNCHANGED pure /\ UNCHANGED <<opts, ctx, cbctx, callers, cancelledIn, budget, now, ctxErr, hst, hres, gst, gval, lastCheck, others>>
    /\ UNCHANGED engine

\* the backoff ticker's period elapses
TickerFire ==
    /\ tk = "armed"
    /\ tk' = "fired"
    /\ UNCHANGED pure /\ UNCHANGED <<opts, ctx, cbctx, callers, cancelledIn, budget, now, ctxErr, pc, i, err, ret, obs, how, lastCheck, others>>
    /\ UNCHANGED routines

\* the caller cancels the outer context, or its deadline passes; a live derived
\* context is cancelled with it
Cancel ==
    \E e \in {Canceled, DeadlineExceeded} :
        /\ ctxErr = Nil
        /\ ctxErr' = e
        /\ tctx' = IF gst = "select" /\ tctx = Nil THEN e ELSE tctx
        /\ cancelledIn' = IF pc = "select1" /\ hst[i] = "running" THEN i ELSE NoAttempt
        /\ UNCHANGED pure /\ UNCHANGED <<opts, ctx, cbctx, callers, budget, now, hst, hres, gst, gval, lastCheck, others>>
        /\ UNCHANGED engine

\* Another Do invocation sharing the Budget makes its check.  Such a check is
\* seen by this invocation only at its own next check, so it is taken just
\* before that one.
OtherCheck ==
    \E isRetry \in BOOLEAN :
        /\ opts.budget
        /\ pc = "loop"
        /\ others < MaxOther
        /\ others' = others + 1
        /\ \E t \in TimesFrom(now) :
           LET c == check(budget, isRetry, t) IN
           /\ now' = t
           /\ budget' = c.b
           /\ lastCheck' = [n |-> lastCheck.n + 1, fn |-> "check", isRetry |-> isRetry, ok |-> c.ok]
        /\ UNCHANGED pure /\ UNCHANGED <<opts, ctx, cbctx, callers, cancelledIn, ctxErr>>
        /\ UNCHANGED engine
        /\ UNCHANGED routines

Next ==
    \/ StartAttempt
    \/ LoopExit
    \/ DoRecv
    \/ DoCtxDone1
    \/ DoTicker
    \/ DoCtxDone2
    \/ CbReturn
    \/ TimeoutRecv
    \/ TimeoutCtxDone
    \/ AttemptTimeout
    \/ TickerFire
    \/ Cancel
    \/ OtherCheck

Spec == Init /\ [][Next]_vars

\* ----------------------------------------------------- the Budget taken alone
\* Budget.Rate and Budget.Ratio drawn for a Budget taken alone
BudgetRates == {F(0, 1), F(1, 1)}
BudgetRatios == {F(0, 1), F(1, 2)}

\* No Do call is followed: clients only make their checks on one Budget.
InitBudget ==
    /\ opts = [Attempts |-> 0, Timeout |-> 0, budget |-> TRUE]
    /\ budget \in {NewBudget(r, q) : r \in BudgetRates, q \in BudgetRatios}
    /\ now = StartTime
    /\ ctxErr = Nil
    /\ pc = "none"
    /\ i = 0
    /\ err = Nil
    /\ ret = Nil
    /\ tk = "off"
    /\ hst = [k \in AttemptIdx |-> "none"]
    /\ hres = [k \in AttemptIdx |-> Nil]
    /\ gst = "none"
    /\ gval = Nil
    /\ tctx = Nil
    /\ obs = <<>>
    /\ how = "none"
    /\ lastCheck = [n |-> 0, fn |-> "check", isRetry |-> FALSE, ok |-> TRUE]
    /\ others = 0
    /\ cancelledIn = NoAttempt
    /\ callers = [p \in Callers |-> IdleCaller]
    /\ ctx = Background
    /\ cbctx = [k \in AttemptIdx |-> Background]
    /\ PureIdle

\* a client calls b.check(isRetry) at some later time t
ClientCheck ==
    \E isRetry \in BOOLEAN : \E t \in now..(StartTime + MaxBudgetTime) :
        /\ lastCheck.n < MaxChecks
        /\ LET c == check(budget, isRetry, t) IN
           /\ now' = t
           /\ budget' = c.b
           /\ lastCheck' = [n |-> lastCheck.n + 1, fn |-> "check", isRetry |-> isRetry, ok |-> c.ok]
        /\ UNCHANGED pure /\ UNCHANGED <<opts, ctx, cbctx, callers, cancelledIn, ctxErr, others>>
        /\ UNCHANGED engine
        /\ UNCHANGED routines

NextBudget == ClientCheck

SpecBudget == InitBudget /\ [][NextBudget]_vars

\* ------------------------------- one Budget called by clients and by a server
\* BudgetHandler.ServeHTTP calls h.overload(isRetry) at some later time t
ServerCheck ==
    \E isRetry \in BOOLEAN : \E t \in now..(StartTime + MaxBudgetTime) :
        /\ lastCheck.n < MaxChecks
        /\ LET c == overload(budget, isRetry, t) IN
           /\ now' = t
           /\ budget' = c.b
           /\ lastCheck' = [n |-> lastCheck.n + 1, fn |-> "overload",
                            isRetry |-> isRetry, ok |-> c.ok]
        /\ UNCHANGED pure /\ UNCHANGED <<opts, ctx, cbctx, callers, cancelledIn, ctxErr, others>>
        /\ UNCHANGED engine
        /\ UNCHANGED routines

NextShared == ClientCheck \/ ServerCheck

SpecShared == InitBudget /\ [][NextShared]_vars

\* ------------------------------------ the Budget's methods, statement by statement
\* Goroutines call check / sendOK and overload on one Budget concurrently; each
\* step below is one statement of the method body.
InCS(p) == callers[p].pc \notin {"idle", "lock"}
Frame == UNCHANGED pure /\ UNCHANGED <<opts, ctx, cbctx, ctxErr, others, cancelledIn>> /\ UNCHANGED engine
            /\ UNCHANGED routines

\* a goroutine calls b.check(isRetry) or b.overload(isRetry)
CallBudget(p) ==
    \E fn \in {"check", "overload"} : \E isRetry \in BOOLEAN :
        /\ callers[p].pc = "idle"
        /\ lastCheck.n + Cardinality({q \in Callers : callers[q].pc # "idle"})
              < MaxCalls
        /\ callers' = [callers EXCEPT ![p] =
                          [IdleCaller EXCEPT !.pc = "lock", !.fn = fn,
                                             !.isRetry = isRetry]]
        /\ UNCHANGED <<budget, now, lastCheck>>
        /\ Frame

\* b.mu.Lock() that does not wait for the mutex to be free
LockNoMutex(p) ==
    /\ callers[p].pc = "lock"
    /\ callers' = [callers EXCEPT ![p].pc = "init", ![p].pre = budget]
    /\ UNCHANGED <<budget, now, lastCheck>>
    /\ Frame

\* b.mu.Lock()
Lock(p) ==
    /\ callers[p].pc = "lock"
    /\ \A q \in Callers : ~InCS(q)
    /\ callers' = [callers EXCEPT ![p].pc = "init", ![p].pre = budget]
    /\ UNCHANGED <<budget, now, lastCheck>>
    /\ Frame

\* the lazy creation of the two estimators, and t := time.Now()
LazyInit(p) ==
    /\ callers[p].pc = "init"
    /\ budget' = [budget EXCEPT !.initialCalls = <<Estimator(budget.initialCalls)>>,
                                !.retriedCalls = <<Estimator(budget.retriedCalls)>>]
    /\ \E t \in now..(StartTime + MaxCallTime) :
          /\ now' = t
          /\ callers' = [callers EXCEPT
                ![p].t = t,
                ![p].pc = IF callers[p].fn = "check" /\ callers[p].isRetry
                          THEN "rate1" ELSE "add"]
    /\ UNCHANGED lastCheck
    /\ Frame

\* check: b.initialCalls.Add(t, 1); return true
\* overload: Add(t, 1) on the estimator isRetry selects
AddCall(p) ==
    LET c == callers[p] IN
    /\ c.pc = "add"
    /\ budget' = IF c.isRetry
                 THEN [budget EXCEPT !.retriedCalls = <<Add(budget.retriedCalls[1], c.t, 1)>>]
                 ELSE [budget EXCEPT !.initialCalls = <<Add(budget.initialCalls[1], c.t, 1)>>]
    /\ callers' = [callers EXCEPT
          ![p].pc = IF c.fn = "check" THEN "unlock" ELSE "rate1",
          ![p].res = TRUE]
    /\ UNCHANGED <<now, lastCheck>>
    /\ Frame

\* initialRate := b.initialCalls.Rate(t)
InitialRate(p) ==
    LET c == callers[p]
        r == Rate(budget.initialCalls[1], c.t) IN
    /\ c.pc = "rate1"
    /\ budget' = [budget EXCEPT !.initialCalls = <<r.mr>>]
    /\ callers' = [callers EXCEPT ![p].pc = "rate2", ![p].initialRate = r.val]
    /\ UNCHANGED <<now, lastCheck>>
    /\ Frame

\* retriedRate := b.retriedCalls.Rate(t)
RetriedRate(p) ==
    LET c == callers[p]
        r == Rate(budget.retriedCalls[1], c.t) IN
    /\ c.pc = "rate2"
    /\ budget' = [budget EXCEPT !.retriedCalls = <<r.mr>>]
    /\ callers' = [callers EXCEPT ![p].pc = "decide", ![p].retriedRate = r.val]
    /\ UNCHANGED <<now, lastCheck>>
    /\ Frame

\* check: the threshold test, then return false, or Add(t, 1) and return true
\* overload: totalRate and the value returned
Decide(p) ==
    LET c == callers[p]
        totalRate == FAdd(c.initialRate, c.retriedRate)
        refuse == /\ FGt(c.initialRate, budget.Rate)
                  /\ FGt(FDiv(c.retriedRate, c.initialRate), budget.Ratio)
    IN
    /\ c.pc = "decide"
    /\ IF c.fn = "check"
       THEN /\ budget' = IF refuse THEN budget
                         ELSE [budget EXCEPT !.retriedCalls =
                                   <<Add(budget.retriedCalls[1], c.t, 1)>>]
            /\ callers' = [callers EXCEPT ![p].pc = "unlock", ![p].res = ~refuse]
       ELSE /\ budget' = budget
            /\ callers' = [callers EXCEPT
                  ![p].pc = "unlock",
                  ![p].res = /\ FGt(totalRate, budget.Rate)
                             /\ FGt(FDiv(c.retriedRate, totalRate), budget.Ratio)]
    /\ UNCHANGED <<now, lastCheck>>
    /\ Frame

\* the deferred b.mu.Unlock(), and the return to the caller
Unlock(p) ==
    LET c == callers[p] IN
    /\ c.pc = "unlock"
    /\ lastCheck' = [n |-> lastCheck.n + 1, fn |-> c.fn, isRetry |-> c.isRetry,
                     ok |-> c.res]
    /\ callers' = [callers EXCEPT ![p] = IdleCaller]
    /\ UNCHANGED <<budget, now>>
    /\ Frame

NextMutex ==
    \E p \in Callers :
        \/ CallBudget(p)
        \/ Lock(p)
        \/ LazyInit(p)
        \/ AddCall(p)
        \/ InitialRate(p)
        \/ RetriedRate(p)
        \/ Decide(p)
        \/ Unlock(p)

SpecMutex == InitBudget /\ [][NextMutex]_vars

\* ------------------------------------------------------------ Do: the options
\* the options a caller may pass to Do
Options ==
    {Opt("Attempts", n) : n \in {0, 2}}
    \cup {Opt("backoff", b) : b \in {ExpBackoff(1, 8, F(2, 1)), ExpBackoff(100, 100, F(1, 1))}}
    \cup {Opt("Jitter", j) : j \in {WithoutJitter, EqualJitter}}
    \cup {Opt("Timeout", d) : d \in {1, 250}}
    \cup {Opt("budget", b) : b \in {"b1", "b2"}}

RECURSIVE SeqsUpTo(_, _)
SeqsUpTo(S, n) ==
    IF n = 0 THEN {<<>>}
    ELSE LET shorter == SeqsUpTo(S, n - 1)
         IN shorter \cup {Append(q, x) : q \in {r \in shorter : Len(r) = n - 1}, x \in S}

\* the state of the program outside the part followed
ProgramIdle ==
    /\ opts = [Attempts |-> 0, Timeout |-> 0, budget |-> FALSE]
    /\ budget = NewBudget(F(0, 1), F(0, 1))
    /\ now = StartTime
    /\ ctxErr = Nil
    /\ pc = "none"
    /\ i = 0
    /\ err = Nil
    /\ ret = Nil
    /\ tk = "off"
    /\ hst = [k \in AttemptIdx |-> "none"]
    /\ hres = [k \in AttemptIdx |-> Nil]
    /\ gst = "none"
    /\ gval = Nil
    /\ tctx = Nil
    /\ obs = <<>>
    /\ how = "none"
    /\ lastCheck = [n |-> 0, fn |-> "check", isRetry |-> FALSE, ok |-> TRUE]
    /\ others = 0
    /\ cancelledIn = NoAttempt
    /\ callers = [p \in Callers |-> IdleCaller]
    /\ ctx = Background
    /\ cbctx = [k \in AttemptIdx |-> Background]

\* Do is called with some options
InitOptions ==
    /\ ProgramIdle
    /\ doOpts \in SeqsUpTo(Options, MaxOptions)
    /\ intOpts = DefaultOptions
    /\ nopt = 0
    /\ DelayIdle
    /\ RateIdle
    /\ HTTPIdle

\* one iteration of "for _, o := range opts { o.apply(&intOpts) }"
ApplyOption ==
    /\ nopt < Len(doOpts)
    /\ intOpts' = apply(doOpts[nopt + 1], intOpts)
    /\ nopt' = nopt + 1
    /\ UNCHANGED doOpts
    /\ UNCHANGED program
    /\ UNCHANGED delayvars
    /\ UNCHANGED mrvars
    /\ UNCHANGED httpvars

NextOptions == ApplyOption

SpecOptions == InitOptions /\ [][NextOptions]_vars

\* ------------------------------------------------- do(): the backoff delays
\* the ExpBackoff and Jitter values a caller may pass
Backoffs ==
    {ExpBackoff(base, max, factor) :
        base \in 0..3, max \in {2, 4, 8},
        factor \in {F(1, 2), F(1, 1), F(2, 1), F(3, 1)}}
Jitters == {WithoutJitter, F(0, 1), F(1, 4), EqualJitter, FullJitter}
\* the values rand.Float64() may return, all in [0, 1)
Rands == {F(k, RandSteps) : k \in 0..(RandSteps - 1)}

InitDelay ==
    /\ ProgramIdle
    /\ doOpts = <<>>
    /\ intOpts = DefaultOptions
    /\ nopt = 0
    /\ dopts \in [backoff : Backoffs, Jitter : Jitters, arch : Archs]
    /\ attempt = NoAttempt
    /\ unjittered = 0
    /\ jittered = 0
    /\ previous = 0
    /\ rnd = F(0, 1)
    /\ ticker = "none"
    /\ RateIdle
    /\ HTTPIdle

\* "delay := opts.delay(i); delay = opts.jitter(delay)" and
\* "ticker := time.NewTicker(delay)" in the next iteration of the loop of
\* do(), every attempt failing with an error that is retried
ComputeDelay ==
    \E x \in Rands :
        /\ attempt < MaxDelayAttempt
        /\ ticker # "panic"
        /\ attempt' = attempt + 1
        /\ unjittered' = delay(dopts.backoff, attempt + 1, dopts.arch)
        /\ jittered' = jitter(dopts.Jitter, unjittered', x, dopts.arch)
        /\ ticker' = NewTicker(jittered')
        /\ previous' = unjittered
        /\ rnd' = x
        /\ UNCHANGED dopts
        /\ UNCHANGED program
        /\ UNCHANGED optvars
        /\ UNCHANGED mrvars
        /\ UNCHANGED httpvars

NextDelay == ComputeDelay

SpecDelay == InitDelay /\ [][NextDelay]_vars

\* ------------------------------------------------- a movingRate taken alone
\* &movingRate{BucketLength: time.Second, BucketNum: n}
MovingRate(n) == [newMovingRate EXCEPT !.BucketNum = n]

InitRate ==
    /\ ProgramIdle
    /\ doOpts = <<>>
    /\ intOpts = DefaultOptions
    /\ nopt = 0
    /\ DelayIdle
    /\ HTTPIdle
    /\ mr \in {MovingRate(n) : n \in 1..MaxBucketNum}
    /\ mrop = NoOp
    /\ nops = 0
    /\ mrfirst = ZeroTime
    /\ steady = [c |-> 0, t |-> ZeroTime, added |-> 0, seconds |-> 0]

\* mr.Add(t, n), for any timestamp t after the zero time
CallAdd ==
    \E t \in 1..MaxRateTime : \E n \in 1..2 :
        /\ nops < MaxRateOps
        /\ nops' = nops + 1
        /\ mrfirst' = IF mr.lastUpdate = ZeroTime THEN t ELSE mrfirst
        /\ mr' = Add(mr, t, n)
        /\ mrop' = [op |-> "Add", t |-> t, val |-> F(0, 1),
                    appended |-> IF t < mr.lastUpdate THEN 0 ELSE forwardLen(mr, t)]
        /\ UNCHANGED steady
        /\ UNCHANGED program
        /\ UNCHANGED <<optvars, delayvars, httpvars>>

\* mr.Rate(t), for any timestamp t after the zero time
CallRate ==
    \E t \in 1..MaxRateTime :
        /\ nops < MaxRateOps
        /\ nops' = nops + 1
        /\ mrfirst' = IF mr.lastUpdate = ZeroTime THEN t ELSE mrfirst
        /\ LET r == Rate(mr, t) IN
           /\ mr' = r.mr
           /\ mrop' = [op |-> "Rate", t |-> t, val |-> r.val,
                       appended |-> IF t < mr.lastUpdate THEN 0 ELSE forwardLen(mr, t)]
        /\ UNCHANGED steady
        /\ UNCHANGED program
        /\ UNCHANGED <<optvars, delayvars, httpvars>>

NextRate == CallAdd \/ CallRate

SpecRate == InitRate /\ [][NextRate]_vars

\* ------------------------------------- a movingRate fed at a steady pace
\* A client adds c events at a timestamp, then c events one second later, and
\* so on, and asks for the rate at its latest timestamp.
InitSteady ==
    /\ ProgramIdle
    /\ doOpts = <<>>
    /\ intOpts = DefaultOptions
    /\ nopt = 0
    /\ DelayIdle
    /\ HTTPIdle
    /\ mr \in {MovingRate(n) : n \in 1..MaxBucketNum}
    /\ mrop = NoOp
    /\ nops = 0
    /\ mrfirst = ZeroTime
    /\ steady \in [c : 1..MaxPace, t : TicksPerSecond..(2 * TicksPerSecond - 1),
                   added : {0}, seconds : {0}]

\* mr.Add(tm, 1), as in the inner loop of TestMovingRate
FeedEvent ==
    /\ steady.added < steady.c
    /\ mr' = Add(mr, steady.t, 1)
    /\ mrop' = [op |-> "Add", t |-> steady.t, val |-> F(0, 1),
                appended |-> forwardLen(mr, steady.t)]
    /\ steady' = [steady EXCEPT !.added = @ + 1]
    /\ mrfirst' = IF mr.lastUpdate = ZeroTime THEN steady.t ELSE mrfirst
    /\ UNCHANGED nops
    /\ UNCHANGED program
    /\ UNCHANGED <<optvars, delayvars, httpvars>>

\* tm = tm.Add(mr.BucketLength), once the events of this second are added
FeedNextSecond ==
    /\ steady.added = steady.c
    /\ steady.seconds + 1 < MaxSeconds
    /\ steady' = [steady EXCEPT !.t = @ + mr.BucketLength, !.added = 0,
                                !.seconds = @ + 1]
    /\ UNCHANGED <<mr, mrop, nops, mrfirst>>
    /\ UNCHANGED program
    /\ UNCHANGED <<optvars, delayvars, httpvars>>

\* mr.Rate(tm) at the latest timestamp
FeedRate ==
    /\ steady.added = steady.c
    /\ LET r == Rate(mr, steady.t) IN
       /\ mr' = r.mr
       /\ mrop' = [op |-> "Rate", t |-> steady.t, val |-> r.val,
                   appended |-> forwardLen(mr, steady.t)]
    /\ mrfirst' = IF mr.lastUpdate = ZeroTime THEN steady.t ELSE mrfirst
    /\ UNCHANGED <<nops, steady>>
    /\ UNCHANGED program
    /\ UNCHANGED <<optvars, delayvars, httpvars>>

NextSteady == FeedEvent \/ FeedNextSecond \/ FeedRate

SpecSteady == InitSteady /\ [][NextSteady]_vars

\* ------------------------------------------- the Transport: one HTTP exchange
\* checkResponse(res, err); errors.New(res.Status) is an errorString
checkResponse(res, e) ==
    IF e # Nil THEN (IF IsError(e) THEN e ELSE Abort(e))
    ELSE IF temporaryErrorCode(res.StatusCode) THEN ErrorString(1)
    ELSE IF permanentErrorCode(res.StatusCode) /\ res.RetryAfter THEN ErrorString(1)
    ELSE Nil

\* the status codes a server may answer with, and one past them
StatusCodes == 100..600
\* what rt.RoundTrip may return: a response and a nil error, or no response and
\* an error
TransportErrors ==
    {ErrorString(1), PermCond(1), DeadlineExceeded, Canceled, Abort(ErrorString(1))}

InitHTTP ==
    /\ ProgramIdle
    /\ doOpts = <<>>
    /\ intOpts = DefaultOptions
    /\ nopt = 0
    /\ DelayIdle
    /\ RateIdle
    /\ \/ /\ resp \in [StatusCode : StatusCodes, RetryAfter : BOOLEAN]
          /\ rtErr = Nil
       \/ /\ resp = NoResponse
          /\ rtErr \in TransportErrors
    /\ cbErr = Nil
    /\ checked = FALSE

\* "res, err := rt.RoundTrip(...); if err := checkResponse(res, err); ..." in
\* the closure RoundTrip passes to Do
CheckResponse ==
    /\ ~checked
    /\ checked' = TRUE
    /\ cbErr' = checkResponse(resp, rtErr)
    /\ UNCHANGED <<resp, rtErr>>
    /\ UNCHANGED program
    /\ UNCHANGED <<optvars, delayvars, mrvars>>

NextHTTP == CheckResponse

SpecHTTP == InitHTTP /\ [][NextHTTP]_vars

\* ------------------------------- do() run against an operation, one step at a time
\* Do is called without a Timeout and without a Budget on a context that stays
\* live, so that do() and the goroutine of the attempt take turns; the backoff
\* delay is followed as do() computes it.

\* the wait computed with the index of the attempt to come
WaitForNextIndex(k, x) ==
    LET d == delay(dopts.backoff, k + 1, dopts.arch)
    IN [delay |-> d, jittered |-> jitter(dopts.Jitter, d, x, dopts.arch)]

\* "delay := opts.delay(i); delay = opts.jitter(delay)" in iteration k of the
\* loop, with x the value of rand.Float64()
WaitFor(k, x) ==
    LET d == delay(dopts.backoff, k, dopts.arch)
    IN [delay |-> d, jittered |-> jitter(dopts.Jitter, d, x, dopts.arch)]

\* Do is called with the default backoff and Jitter or with others, and with
\* an attempt cap of type Attempts (an int) from -1 to the default
InitLoop ==
    /\ opts \in [Attempts : (0 - 1)..DefaultOptions.Attempts, Timeout : {0},
               budget : {FALSE}]
    /\ budget = NewBudget(F(0, 1), F(0, 1))
    /\ now = StartTime
    /\ ctxErr = Nil
    /\ pc = "loop"
    /\ i = 0
    /\ err = Nil
    /\ ret = Nil
    /\ tk = "off"
    /\ hst = [k \in AttemptIdx |-> "none"]
    /\ hres = [k \in AttemptIdx |-> Nil]
    /\ gst = "none"
    /\ gval = Nil
    /\ tctx = Nil
    /\ obs = <<>>
    /\ how = "none"
    /\ lastCheck = [n |-> 0, fn |-> "check", isRetry |-> FALSE, ok |-> TRUE]
    /\ others = 0
    /\ cancelledIn = NoAttempt
    /\ callers = [p \in Callers |-> IdleCaller]
    /\ ctx = Background
    /\ cbctx = [k \in AttemptIdx |-> Background]
    /\ doOpts = <<>>
    /\ intOpts = DefaultOptions
    /\ nopt = 0
    /\ dopts \in [backoff : {DefaultOptions.backoff, ExpBackoff(1, 8, F(2, 1))},
                  Jitter : {DefaultOptions.Jitter, WithoutJitter, EqualJitter},
                  arch : Archs]
    /\ attempt = NoAttempt
    /\ unjittered = 0
    /\ jittered = 0
    /\ previous = 0
    /\ rnd = F(0, 1)
    /\ ticker = "none"
    /\ RateIdle
    /\ HTTPIdle

LoopFrame ==
    /\ UNCHANGED <<opts, budget, now, ctxErr, tk, hst, hres, gst, gval, tctx,
                   lastCheck, others, cancelledIn, callers, ctx, cbctx>>
    /\ UNCHANGED <<optvars, mrvars, httpvars>>

\* the head of the loop, the goroutine calling cb, and "case err = <-ch"
CallOperation ==
    \E r \in CbResults(i) :
        /\ pc = "loop"
        /\ LoopCond(i)
        /\ i <= MaxDelayAttempt
        /\ err' = r
        /\ obs' = Append(obs, r)
        /\ LET o == Outcome(r) IN
           IF o.return
           THEN ret' = o.val /\ pc' = "done" /\ how' = "result"
           ELSE ret' = ret /\ pc' = "delay" /\ how' = how
        /\ UNCHANGED i
        /\ UNCHANGED delayvars
        /\ LoopFrame

\* the delay, its jitter, and time.NewTicker(delay), which may panic
BackoffDelay ==
    \E x \in Rands :
        /\ pc = "delay"
        /\ attempt' = i
        /\ unjittered' = WaitFor(i, x).delay
        /\ jittered' = WaitFor(i, x).jittered
        /\ ticker' = NewTicker(jittered')
        /\ previous' = unjittered
        /\ rnd' = x
        /\ pc' = IF ticker' = "panic" THEN "panic" ELSE "select2"
        /\ how' = IF ticker' = "panic" THEN "panic" ELSE how
        /\ UNCHANGED <<dopts, i, err, ret, obs>>
        /\ LoopFrame

\* "case <-ticker.C: ticker.Stop()" and the loop's i++
TickerC ==
    /\ pc = "select2"
    /\ ticker' = "none"
    /\ i' = i + 1
    /\ pc' = "loop"
    /\ UNCHANGED <<dopts, attempt, unjittered, jittered, previous, rnd>>
    /\ UNCHANGED <<err, ret, obs, how>>
    /\ LoopFrame

\* the loop condition fails: return err
ReturnErr ==
    /\ pc = "loop"
    /\ ~LoopCond(i)
    /\ ret' = err
    /\ pc' = "done"
    /\ how' = "exhausted"
    /\ UNCHANGED <<i, err, obs>>
    /\ UNCHANGED delayvars
    /\ LoopFrame

NextLoop == CallOperation \/ BackoffDelay \/ TickerC \/ ReturnErr

SpecLoop == InitLoop /\ [][NextLoop]_vars

\* do() keeps running: the goroutine in Do takes its next step whenever it has
\* one, the operation returns from every invocation and the ticker fires
SpecLoopFair == SpecLoop /\ WF_vars(NextLoop)

\* ================================================================ properties
\* number of invocations of the operation started by this Do call
Started == Cardinality({k \in AttemptIdx : hst[k] # "none"})
\* cb has returned in attempt k
Returned(k) == hst[k] \in {"sending", "exited"}
\* the error reports Temporary() == false
Permanent(e) == e # Nil /\ IsError(e) /\ ~Temporary(e)
\* the error with an Abort wrapper removed
Unwrapped(e) == IF e.type = "permanentError" THEN Err(e.wrapped, e.id) ELSE e
LastObs == obs[Len(obs)]
\* events held by an estimator field of the Budget
Events(p) == IF p = <<>> THEN 0 ELSE SumSeq(p[1].counts)

\* C1 (as stated): with an attempt cap n > 0 the operation is invoked at most n
\* times, and if the first invocation returns nil it is invoked exactly once.
C1_Original ==
    /\ (opts.Attempts > 0 => Started <= opts.Attempts)
    /\ ((Returned(0) /\ hres[0] = Nil) => Started = 1)

\* C1 (amended): with an attempt cap n > 0 the operation is invoked at most n
\* times; it is invoked exactly once if Do receives nil as the result of the
\* first attempt, and also if no per-attempt Timeout is configured and the first
\* invocation returns nil.
C1_AtMostCap ==
    /\ (opts.Attempts > 0 => Started <= opts.Attempts)
    /\ ((obs # <<>> /\ obs[1] = Nil) => Started = 1)
    /\ ((opts.Timeout = 0 /\ Returned(0) /\ hres[0] = Nil) => Started = 1)

C1_Witness ==
    /\ opts.Attempts = 2 /\ Started = 2 /\ how = "exhausted"
    /\ pc = "done" /\ ret = ErrorString(2)

\* C2 (as stated): if attempt k is the first attempt whose error reports
\* Temporary() == false, Do invokes the operation exactly k+1 times and returns
\* that error with the Abort wrapper removed.
C2_Original ==
    pc = "done" =>
        \A k \in AttemptIdx :
            (/\ Returned(k) /\ Permanent(hres[k])
             /\ \A j \in 0..(k - 1) : ~(Returned(j) /\ Permanent(hres[j])))
            => (Started = k + 1 /\ ret = Unwrapped(hres[k]))

\* C2 (amended): if the result Do receives from attempt k reports
\* Temporary() == false, Do returns at once that error with the Abort wrapper
\* removed, having invoked the operation exactly k+1 times, and starts no
\* further attempt; no earlier received result was permanent.
C2_PermanentStops ==
    (obs # <<>> /\ Permanent(LastObs)) =>
        /\ pc = "done"
        /\ ret = Unwrapped(LastObs)
        /\ Started = Len(obs)
        /\ i = Len(obs) - 1
        /\ \A j \in 1..(Len(obs) - 1) : ~Permanent(obs[j])

C2_Witness ==
    /\ Len(obs) = 2 /\ obs[2] = Abort(ErrorString(2))
    /\ pc = "done" /\ ret = ErrorString(2) /\ Started = 2

\* C3: once Do receives a nil result it has returned nil, no backoff ticker is
\* created and no further invocation of the operation is started.
C3_NilReturnsAtOnce ==
    (obs # <<>> /\ LastObs = Nil) =>
        (pc = "done" /\ ret = Nil /\ tk = "off" /\ Started = Len(obs))

C3_Witness == Len(obs) = 2 /\ obs[2] = Nil /\ pc = "done" /\ ret = Nil

\* C4 (as stated): if the outer context was cancelled while attempt k was in
\* flight and the operation of attempt k has still not returned, Do starts no
\* further invocation of the operation and, once it has returned, it has
\* returned the outer context's error, whatever Timeout is configured.
C4_Claim ==
    (cancelledIn # NoAttempt /\ hst[cancelledIn] = "running") =>
        /\ \A k \in AttemptIdx : k > cancelledIn => hst[k] = "none"
        /\ pc = "done" => ret = ctxErr

\* C5 (as stated): whenever the outer context is already cancelled when Do
\* observes the outcome of an attempt, Do returns the outer context's error and
\* never the attempt's result.
C5_Claim ==
    [][(pc = "select1" /\ ctxErr # Nil /\ pc' # "select1")
       => (pc' = "done" /\ ret' = ctxErr)]_vars

\* C6: when the outer context is cancelled while the backoff ticker has not yet
\* fired, the step Do takes out of the second select returns the outer
\* context's error and starts no invocation; once Do has returned it starts none.
C6_CancelInBackoff ==
    [][/\ (pc = "select2" /\ ctxErr # Nil /\ tk = "armed" /\ pc' # "select2")
          => (pc' = "done" /\ ret' = ctxErr /\ hst' = hst)
       /\ pc = "done"
          => (pc' = "done" /\ ret' = ret
              /\ \A k \in AttemptIdx : hst[k] = "none" => hst'[k] = "none")]_vars

C6_Witness == pc = "done" /\ how = "ctx2" /\ ret = ctxErr /\ Started = i + 1

\* C7 (as stated): with an attempt cap n > 0, if the n-th attempt returns a
\* retryable error, Do returns exactly that error.
C7_Claim ==
    (pc = "done" /\ opts.Attempts > 0 /\ Len(obs) = opts.Attempts
     /\ LastObs # Nil /\ ~Permanent(LastObs))
    => ret = LastObs

\* C8: when the Budget refuses the retry check of attempt i > 0, Do returns at
\* once the budget-exhausted error, which is none of the errors the operation
\* returned, and the operation is not invoked for attempt i.
C8_RefusedRetry ==
    [][(lastCheck'.n # lastCheck.n /\ others' = others /\ i > 0 /\ ~lastCheck'.ok)
       => /\ pc' = "done"
          /\ ret' = BudgetExhausted
          /\ ret' # err
          /\ \A k \in AttemptIdx : hres[k] # ret' /\ Unwrapped(hres[k]) # ret'
          /\ hst' = hst
          /\ hst[i] = "none"]_vars

C8_Witness ==
    /\ pc = "done" /\ how = "budget" /\ ret = BudgetExhausted
    /\ i = 1 /\ Started = 1 /\ err = ErrorString(1)

\* C9: a check with isRetry = false returns true and records exactly one event
\* in the newest bucket of the initial-call estimator, on top of the ageing of
\* that estimator to the time of the call (none in the retried-call estimator),
\* whatever the thresholds and the calls made before.
C9_InitialNeverDropped ==
    [][(lastCheck'.n # lastCheck.n /\ ~lastCheck'.isRetry)
       => LET f == forward(Estimator(budget.initialCalls), now')
              g == budget'.initialCalls[1]
          IN /\ lastCheck'.ok
             /\ Len(g.counts) = Len(f.counts)
             /\ g.counts[Len(g.counts)] = f.counts[Len(f.counts)] + 1
             /\ Events(budget'.initialCalls) = SumSeq(f.counts) + 1
             /\ Events(budget'.retriedCalls) = Events(budget.retriedCalls)
             /\ g.lastUpdate = now']_vars

C9_Witness ==
    /\ ~lastCheck.isRetry /\ lastCheck.ok /\ lastCheck.n >= 3
    /\ Events(budget.initialCalls) >= 2 /\ Events(budget.retriedCalls) >= 1

\* C10: Do returns the budget-exhausted error only at an attempt with index > 0
\* whose retry check on a non-nil Budget returned false; the first attempt is
\* started whatever the Budget holds, and without a Budget Do is never refused.
C10_OnlyRetriesRefused ==
    /\ (pc = "done" /\ ret = BudgetExhausted)
       => (opts.budget /\ i > 0 /\ hst[i] = "none"
           /\ lastCheck.isRetry /\ ~lastCheck.ok)
    /\ (pc # "loop" \/ i > 0) => hst[0] # "none"
    /\ ~opts.budget => how # "budget"

C10_Witness ==
    /\ pc = "done" /\ ret = BudgetExhausted /\ i = 1 /\ hst[0] = "exited"
    /\ Events(budget.retriedCalls) >= 1

\* a <= b on float64 values; false whenever one side is NaN
FLe(a, b) == ~IsNaN(a) /\ ~IsNaN(b) /\ a.num * b.den <= b.num * a.den
\* the rates of initial and of retried calls a call at time t reads from Budget b
InitialRateAt(b, t) == Rate(Estimator(b.initialCalls), t).val
RetriedRateAt(b, t) == Rate(Estimator(b.retriedCalls), t).val
\* the step is a call of check / sendOK with isRetry = true
RetryCheckStep ==
    lastCheck'.n # lastCheck.n /\ lastCheck'.fn = "check" /\ lastCheck'.isRetry
\* estimator p of the next state is estimator q of this state aged to the time
\* of the call, with n events added to its newest bucket
AgedPlus(p, q, n) ==
    LET f == forward(Estimator(q), now')
    IN p[1] = [f EXCEPT !.counts[Len(f.counts)] = @ + n]

C12_RefusedNotRecorded ==
    [][(RetryCheckStep /\ ~lastCheck'.ok)
       => /\ AgedPlus(budget'.initialCalls, budget.initialCalls, 0)
          /\ AgedPlus(budget'.retriedCalls, budget.retriedCalls, 0)
          /\ Events(budget'.initialCalls) = Events(budget.initialCalls)
          /\ Events(budget'.retriedCalls) = Events(budget.retriedCalls)]_vars

C12_Witness ==
    /\ lastCheck.fn = "check" /\ lastCheck.isRetry /\ ~lastCheck.ok
    /\ lastCheck.n = MaxChecks
    /\ Events(budget.initialCalls) >= 1 /\ Events(budget.retriedCalls) >= 1
    /\ Len(budget.retriedCalls[1].counts) >= 2

\* C13 (as stated): whenever the retried-call rate is below Budget.Rate, a
\* retry check is not refused, whatever the ratio of retries to initial calls.
C13_Claim ==
    [][(RetryCheckStep
        /\ FGt(budget.Rate, RetriedRateAt(budget, now')))
       => lastCheck'.ok]_vars

\* C14 (as stated): with Rate = 0 and Ratio = r, once I > 0 initial calls are
\* recorded, every admission of a retry leaves at most r * I + 1 retries
\* recorded: the recorded retries never exceed r * I by more than one.
C14_Claim ==
    [][(RetryCheckStep /\ lastCheck'.ok
        /\ budget.Rate = F(0, 1) /\ Events(budget.initialCalls) > 0)
       => Events(budget'.retriedCalls) * budget.Ratio.den
             <= budget.Ratio.num * Events(budget.initialCalls)
                + budget.Ratio.den]_vars

\* the step is a call of overload
OverloadStep == lastCheck'.n # lastCheck.n /\ lastCheck'.fn = "overload"

\* C15: every call of overload adds exactly one event, to the retried-call
\* estimator when isRetry is true and to the initial-call estimator otherwise,
\* also when it reports overload; the other estimator is only aged.
C15_OverloadRecords ==
    [][OverloadStep =>
        LET r == IF lastCheck'.isRetry THEN 1 ELSE 0
        IN /\ AgedPlus(budget'.retriedCalls, budget.retriedCalls, r)
           /\ AgedPlus(budget'.initialCalls, budget.initialCalls, 1 - r)
           /\ Events(budget'.retriedCalls) = Events(budget.retriedCalls) + r
           /\ Events(budget'.initialCalls) = Events(budget.initialCalls) + 1 - r]_vars

C15_Witness ==
    /\ lastCheck.fn = "overload" /\ lastCheck.ok /\ lastCheck.isRetry
    /\ lastCheck.n = MaxChecks
    /\ Events(budget.retriedCalls) >= 2 /\ Events(budget.initialCalls) >= 1

Sequential(p) ==
    LET c == callers[p]
    IN IF c.fn = "check" THEN check(c.pre, c.isRetry, c.t)
       ELSE overload(c.pre, c.isRetry, c.t)

\* C17: at most one goroutine is between Lock and Unlock, and when a call
\* reaches its Unlock the Budget and the value it returns are those of running
\* the whole method alone on the Budget found at its Lock: the calls take
\* effect one after the other in the order of their Locks, and the event a
\* call records is in the Budget.
C17_CriticalSection ==
    /\ Cardinality({p \in Callers : InCS(p)}) <= 1
    /\ \A p \in Callers :
          callers[p].pc = "unlock" =>
             LET c == callers[p]
                 toInitial == IF ~c.isRetry THEN 1 ELSE 0
                 toRetried == IF c.isRetry /\ (c.fn = "overload" \/ c.res)
                              THEN 1 ELSE 0
             IN /\ budget = Sequential(p).b
                /\ c.res = Sequential(p).ok
                /\ Events(budget.initialCalls)
                      = Events(c.pre.initialCalls) + toInitial
                /\ Events(budget.retriedCalls)
                      = Events(c.pre.retriedCalls) + toRetried

\* a call reaches its Unlock while another goroutine, which called before it
\* took the mutex, still waits for the mutex
C17_Witness ==
    \E p, q \in Callers :
        /\ callers[p].pc = "unlock" /\ callers[q].pc = "lock"
        /\ callers[p].fn = "check" /\ callers[p].isRetry /\ callers[p].res
        /\ callers[q].fn = "overload"
        /\ lastCheck.n >= 1
        /\ Events(callers[p].pre.initialCalls) >= 1
        /\ Events(budget.retriedCalls) = 1

\* the attempts whose operation is executing
Running == {k \in AttemptIdx : hst[k] = "running"}

\* C18 (as stated, taken while the outer context is live): at no point are two
\* executions of the operation started by one Do invocation running at the same
\* time, a Timeout included.
C18_Original == ctxErr = Nil => Cardinality(Running) <= 1

\* C18 (amended): without a per-attempt Timeout the only execution that can be
\* running is that of the latest attempt; an execution of an earlier attempt
\* runs beside it only if a Timeout is configured.
C18_SequentialWithoutTimeout ==
    /\ \A k \in Running : k = i \/ (opts.Timeout # 0 /\ k < i)
    /\ opts.Timeout = 0 => Cardinality(Running) <= 1

C18_Witness ==
    /\ opts.Timeout = 0 /\ i = 1 /\ hst[0] = "exited" /\ hst[1] = "running"
    /\ pc = "select1"

C20_Claim ==
    /\ \A k \in AttemptIdx :
          hst[k] = "sending" =>
             IF opts.Timeout = 0 THEN pc = "select1" /\ k = i
             ELSE gst = "select" /\ k = i
    /\ gst = "sending" => pc = "select1"

\* C21: the context every started invocation of the operation was called with
\* gives its zero-based index to Attempt, with and without a Timeout and
\* whatever the context passed to Do carries; Attempt on a context that
\* carries no attempt value returns 0.
C21_AttemptIndex ==
    /\ \A k \in AttemptIdx : hst[k] # "none" => Attempt(cbctx[k]) = k
    /\ Value(ctx, contextAttemptKey) = <<>> => Attempt(ctx) = 0

\* the second invocation is running under a Timeout, within a Do call whose
\* own context carries the attempt value 1 of an enclosing call
C21_Witness ==
    /\ opts.Timeout # 0 /\ Attempt(ctx) = 1
    /\ hst[0] # "none" /\ hst[1] = "running"
    /\ Attempt(cbctx[0]) = 0 /\ Attempt(cbctx[1]) = 1

\* C22: after Do has applied any number of its options, each field of intOpts
\* holds the value of the last option of its kind among those applied, and
\* its default when there is none.
C22_LastOptionWins ==
    \A kind \in OptionKinds :
        LET given == {n \in 1..nopt : doOpts[n].kind = kind}
        IN intOpts[kind] =
              IF given = {} THEN DefaultOptions[kind]
              ELSE OptVal(doOpts[CHOOSE n \in given : \A m \in given : m <= n])

\* all options applied: two of one kind, the second differing from the first,
\* and one of another kind in between
C22_Witness ==
    /\ nopt = 3 /\ Len(doOpts) = 3
    /\ doOpts[1].kind = "Attempts" /\ doOpts[3].kind = "Attempts"
    /\ doOpts[2].kind = "Timeout"
    /\ doOpts[1].Attempts # doOpts[3].Attempts
    /\ intOpts.Attempts = doOpts[3].Attempts /\ intOpts.Timeout = doOpts[2].Timeout
    /\ intOpts.Jitter = FullJitter /\ intOpts.budget = "nil"

\* C23 (as stated, here for the configurations with Base <= Max and
\* Factor >= 1 alone): every delay the backoff curve gives is at most Max, and
\* no delay is smaller than the one for the attempt before.
C23_Claim ==
    (/\ attempt # NoAttempt
     /\ dopts.backoff.Base <= dopts.backoff.Max
     /\ ~FGt(F(1, 1), dopts.backoff.Factor))
    => /\ unjittered <= dopts.backoff.Max
       /\ attempt > 0 => previous <= unjittered

\* C24 (as stated): a negative Jitter leaves the delay d as it is; with a
\* Jitter j in (0, 1] the jittered delay lies in [(1 - j) * d, d], is never
\* negative and never larger than d.
C24_Original ==
    attempt # NoAttempt =>
        LET j == dopts.Jitter
            d == unjittered
        IN /\ j.num < 0 => jittered = d
           /\ (j.num > 0 /\ j.num <= j.den)
              => /\ jittered * j.den >= (j.den - j.num) * d
                 /\ jittered <= d
                 /\ jittered >= 0

\* C24 (amended): a negative Jitter leaves the delay d as it is; with a Jitter
\* j in (0, 1] the jittered delay is j * x + (1 - j) * d cut down to a whole
\* number of nanoseconds, for x = rand * d in [0, d): it is never negative, at
\* least (1 - j) * d cut down to a whole number, at most d, and below d when d
\* is positive.
C24_JitterRange ==
    attempt # NoAttempt =>
        LET j == dopts.Jitter
            d == unjittered
        IN /\ j.num < 0 => jittered = d
           /\ (j.num > 0 /\ j.num <= j.den)
              => /\ jittered = (j.num * rnd.num * d + (j.den - j.num) * d * rnd.den)
                                  \div (j.den * rnd.den)
                 /\ jittered >= ((j.den - j.num) * d) \div j.den
                 /\ jittered <= d
                 /\ jittered >= 0
                 /\ d > 0 => jittered < d

\* a delay of 3 jittered with EqualJitter and a random number of 1/4 gives 1,
\* below 3/2
C24_Witness ==
    /\ attempt # NoAttempt /\ dopts.Jitter = EqualJitter
    /\ unjittered = 3 /\ rnd = F(1, RandSteps) /\ jittered < unjittered
    /\ jittered + jittered < unjittered

\* C25: a call of Add or Rate with a timestamp earlier than lastUpdate leaves
\* counts and lastUpdate as they are, and Rate then returns NaN; no call ever
\* moves lastUpdate backward.
C25_NeverBackward ==
    [][/\ mr'.lastUpdate >= mr.lastUpdate
       /\ (mrop'.t < mr.lastUpdate /\ nops' = nops + 1)
          => /\ mr' = mr
             /\ mrop'.op = "Rate" => IsNaN(mrop'.val)]_vars

\* Rate was called with a timestamp in the past of an estimator that holds
\* events
C25_Witness ==
    /\ mrop.op = "Rate" /\ mrop.t < mr.lastUpdate /\ IsNaN(mrop.val)
    /\ SumSeq(mr.counts) > 0

\* C26 (as stated): Rate called with a timestamp not earlier than lastUpdate on
\* an estimator in which no event is recorded returns 0, and not NaN.
C26_Claim ==
    (mrop.op = "Rate" /\ mrop.t = mr.lastUpdate /\ SumSeq(mr.counts) = 0)
    => (~IsNaN(mrop.val) /\ mrop.val.num = 0)

\* the rate was asked for at the client's latest timestamp, all events of
\* that second added, on an estimator that holds all the buckets it keeps
SteadyFull ==
    /\ mrop.op = "Rate" /\ mrop.t = steady.t /\ steady.added = steady.c
    /\ Len(mr.counts) = mr.BucketNum + 1

\* C27 (as stated): with c events added at each of successive timestamps one
\* second apart, Rate at the latest timestamp is c once the window is fully
\* populated.
C27_Original ==
    SteadyFull => mrop.val.num = steady.c * mrop.val.den

\* C27 (amended): with c events added at each of successive timestamps one
\* second apart, a fraction phi of a second into their bucket, Rate at the
\* latest timestamp is c * (N + 1 - phi) / N once the estimator holds N + 1
\* buckets: the newest bucket counts in full, the oldest with weight 1 - phi.
\* The value is above c and at most c * (N + 1) / N.
C27_SteadyRate ==
    SteadyFull =>
        LET el == steady.t - timeRoundDown(steady.t, mr.BucketLength)
            n == mr.BucketNum
            len == mr.BucketLength
        IN /\ mrop.val.num * (n * len)
                 = steady.c * ((n + 1) * len - el) * mrop.val.den
           /\ FGt(mrop.val, F(steady.c, 1))
           /\ ~FGt(mrop.val, F(steady.c * (n + 1), n))

\* two events a second, half a second into each bucket, on a full estimator
\* of two buckets: the rate is 2 * 2.5 / 2 = 2.5
C27_Witness ==
    /\ SteadyFull /\ steady.c = 2 /\ mr.BucketNum = 2
    /\ steady.t - timeRoundDown(steady.t, mr.BucketLength) > 0
    /\ steady.seconds > mr.BucketNum
    /\ mr.counts = <<2, 2, 2>>

\* C28: when Add or Rate is called at least BucketNum + 1 whole bucket periods
\* after the call before it, no event recorded before the call is left in the
\* estimator, which then holds BucketNum + 1 buckets; Rate returns 0; and the
\* call appends BucketNum + 1 buckets, however long the gap.  No call ever
\* appends more than that or leaves more buckets than that.
C28_GapResets ==
    [][/\ mrop'.appended <= mr.BucketNum + 1
       /\ Len(mr'.counts) <= mr.BucketNum + 1
       /\ (/\ nops' = nops + 1
           /\ mr.lastUpdate # ZeroTime
           /\ mrop'.t >= mr.lastUpdate + (mr.BucketNum + 1) * mr.BucketLength)
          => /\ mrop'.appended = mr.BucketNum + 1
             /\ Len(mr'.counts) = mr.BucketNum + 1
             /\ \A k \in 1..mr.BucketNum : mr'.counts[k] = 0
             /\ mrop'.op = "Rate"
                => (SumSeq(mr'.counts) = 0 /\ mrop'.val.num = 0 /\ mrop'.val.den # 0)
             /\ mrop'.op = "Add" => SumSeq(mr'.counts) = mr'.counts[mr.BucketNum + 1]]_vars

\* Rate was called more than BucketNum + 2 bucket periods after two calls of
\* Add had recorded events in an estimator of two buckets
C28_Witness ==
    /\ mr.BucketNum = 2 /\ nops = 3 /\ mrop.op = "Rate"
    /\ mrop.val.num = 0 /\ mrop.val.den # 0
    /\ mrop.appended = 3 /\ mr.counts = <<0, 0, 0>>
    /\ mr.lastUpdate = MaxRateTime

\* C29 (as stated): with no attempt cap, no Budget, a context that is never
\* cancelled and an operation whose every invocation fails with an error that
\* is retried, Do is never stopped: each failed attempt is followed by the
\* backoff wait and the next attempt.  (Stated for the backoff curves with a
\* positive Base alone.)
C29_Claim ==
    dopts.backoff.Base > 0 => ticker # "panic"

\* Do retries an attempt that returned e: e is not nil and do() does not
\* return on it
Retried(e) == ~Outcome(e).return

\* C30 (as stated, here for the transport errors and for the responses other
\* than the 4xx ones with a Retry-After header, on which the claim and the
\* documentation of Transport differ): checkResponse returns an error that is
\* retried exactly for the 5xx status codes other than 501, for 423 and for 429
\* with a Retry-After header; on every other response it returns nil, so that
\* the response goes to the caller; a transport error that does not implement
\* Error is wrapped as permanent.
C30_Claim ==
    checked =>
        IF rtErr # Nil
        THEN ~IsError(rtErr) => (cbErr = Abort(rtErr) /\ ~Retried(cbErr))
        ELSE LET c == resp.StatusCode IN
             (~(c >= 400 /\ c < 500 /\ resp.RetryAfter) \/ c = 429
                \/ c = StatusLocked)
             => IF \/ (c >= 500 /\ c < 600 /\ c # StatusNotImplemented)
                   \/ c = StatusLocked
                   \/ (c = 429 /\ resp.RetryAfter)
                THEN Retried(cbErr)
                ELSE cbErr = Nil

\* C31 (as stated): when Do has received a retryable error from the attempt
\* that reaches the cap n > 0 (the n-th one), it has returned: no backoff
\* ticker is created and no backoff wait follows the final attempt.
C31_Claim ==
    (/\ opts.Attempts > 0 /\ Len(obs) = opts.Attempts
     /\ LastObs # Nil /\ ~Permanent(LastObs))
    => (pc = "done" /\ tk = "off")

\* the results Do received are k retryable errors followed by nil
FailsThenSucceeds(k) ==
    /\ Len(obs) = k + 1
    /\ \A n \in 1..k : obs[n] # Nil /\ ~Permanent(obs[n])
    /\ obs[k + 1] = Nil

\* C32: the wait do() computes after the failed attempt i is
\* jitter(delay(i)), i counting from 0; with the default backoff the waits
\* after attempts 0, 1 and 2 are 100ms, 200ms and 400ms before jitter; and
\* when the operation fails 3 times and then succeeds under the default cap,
\* Do has returned nil after 4 invocations, the last wait being the one of
\* attempt 2.
C32_WaitIndex ==
    /\ pc \in {"select2", "panic"}
       => /\ attempt = i /\ attempt = Len(obs) - 1
          /\ unjittered = delay(dopts.backoff, i, dopts.arch)
          /\ jittered = jitter(dopts.Jitter, unjittered, rnd, dopts.arch)
          /\ (dopts.backoff = DefaultOptions.backoff /\ i <= 2)
             => unjittered = 100 * 2 ^ i
    /\ (opts.Attempts = DefaultOptions.Attempts /\ FailsThenSucceeds(3))
       => /\ pc = "done" /\ ret = Nil /\ i = 3 /\ attempt = 2
          /\ dopts.backoff = DefaultOptions.backoff
             => unjittered = 400 /\ previous = 200

\* Do called with the default options has returned nil from its 4th
\* invocation of the operation, after waits of 100ms, 200ms and 400ms
C32_Witness ==
    /\ opts.Attempts = DefaultOptions.Attempts
    /\ dopts.backoff = DefaultOptions.backoff /\ dopts.Jitter = DefaultOptions.Jitter
    /\ FailsThenSucceeds(3) /\ pc = "done" /\ ret = Nil /\ how = "result"
    /\ unjittered = 400 /\ previous = 200 /\ jittered > 0

\* the number of the bucket that timestamp t falls in
BucketOf(m, t) == timeRoundDown(t, m.BucketLength) \div m.BucketLength
\* the last n elements of q, all of q when it has no more
LastN(q, n) == IF Len(q) > n THEN SubSeq(q, Len(q) - n + 1, Len(q)) ELSE q

\* C33: once initialised an estimator with window N holds at least 1 and at
\* most N + 1 buckets: one more than the bucket periods begun since its first
\* call, and exactly N + 1 once N or more of them have elapsed; a call that
\* advances it by k buckets appends k zero buckets and drops the oldest ones
\* beyond N + 1 (Rate adds nothing to the newest bucket, Add only adds to it).
C33_BucketCount ==
    [][/\ mr'.lastUpdate # ZeroTime
          => LET elapsed == BucketOf(mr', mr'.lastUpdate) - BucketOf(mr', mrfirst')
             IN /\ Len(mr'.counts) >= 1
                /\ Len(mr'.counts) <= mr.BucketNum + 1
                /\ Len(mr'.counts) =
                      IF elapsed >= mr.BucketNum THEN mr.BucketNum + 1 ELSE elapsed + 1
       /\ (nops' = nops + 1 /\ mr.lastUpdate # ZeroTime /\ mrop'.t >= mr.lastUpdate)
          => LET k == BucketOf(mr, mrop'.t) - BucketOf(mr, mr.lastUpdate)
                 kept == LastN(mr.counts \o Zeros(k), mr.BucketNum + 1)
             IN /\ Len(mr'.counts) = Len(kept)
                /\ SubSeq(mr'.counts, 1, Len(kept) - 1) = SubSeq(kept, 1, Len(kept) - 1)
                /\ IF mrop'.op = "Rate" THEN mr'.counts = kept
                   ELSE mr'.counts[Len(kept)] > kept[Len(kept)]]_vars

\* an estimator of two buckets that held events in two buckets was advanced
\* by two buckets by an Add: the oldest bucket was dropped, one with events
\* is kept as the oldest
C33_Witness ==
    /\ mr.BucketNum = 2 /\ nops = 3 /\ mrop.op = "Add" /\ mrop.appended = 2
    /\ Len(mr.counts) = 3 /\ mr.counts[1] > 0 /\ mr.counts[2] = 0 /\ mr.counts[3] > 0
    /\ BucketOf(mr, mr.lastUpdate) - BucketOf(mr, mrfirst) = 3

\* a = b on float64 values written as fractions, NaN taken as equal to NaN
\* and +Inf to +Inf
FSame(a, b) ==
    /\ a.num * b.den = b.num * a.den
    /\ (a.den = 0) <=> (b.den = 0)
    /\ IsNaN(a) <=> IsNaN(b)

\* C34: Rate(t) for t not earlier than the last update is count / seconds,
\* with f the fraction of its bucket elapsed at t: while the estimator holds at
\* most N buckets, count is the sum of all buckets and seconds is (number of
\* buckets - 1) + f bucket periods; once it holds N + 1 buckets, count is
\* (1 - f) times the oldest bucket plus the sum of the other N, and seconds is
\* N bucket periods.  (The division is that of float64: x/0 is +Inf, 0/0 NaN.)
C34_RateFormula ==
    (mrop.op = "Rate" /\ mrop.t >= mr.lastUpdate) =>
        LET len == mr.BucketLength
            el == mrop.t - timeRoundDown(mrop.t, len)
            held == Len(mr.counts)
            perSecond == F(TicksPerSecond, len)
        IN /\ mrop.t = mr.lastUpdate
           /\ IF held <= mr.BucketNum
              THEN FSame(mrop.val,
                         FMul(perSecond,
                              FDiv(F(SumSeq(mr.counts), 1),
                                   F((held - 1) * len + el, len))))
              ELSE FSame(mrop.val,
                         FMul(perSecond,
                              FDiv(F((len - el) * mr.counts[1]
                                     + len * SumSeq(Tail(mr.counts)), len),
                                   F(mr.BucketNum, 1))))

\* the rate was asked for half a bucket into the third bucket of an estimator
\* with a window of one bucket, events recorded in the oldest bucket it holds
\* and in the newest: the oldest counts for half
C34_Witness ==
    /\ mrop.op = "Rate" /\ mrop.t = mr.lastUpdate /\ mr.BucketNum = 1
    /\ Len(mr.counts) = 2 /\ mr.counts[1] = 2 /\ mr.counts[2] = 1
    /\ mrop.t - timeRoundDown(mrop.t, mr.BucketLength) > 0
    /\ FSame(mrop.val, F(2, 1))

\* C35: Do has returned exactly when it has taken one of its return
\* statements, and the value it returned is nil, the outer context's error,
\* the budget-exhausted error, or the result of the attempt it received last
\* (with an Abort wrapper removed): an error made by an attempt is returned
\* only when no later attempt's result has been received.
C35_OneOutcome ==
    /\ (pc = "done") <=> (how # "none")
    /\ pc = "done" =>
          /\ \/ ret = Nil
             \/ ctxErr # Nil /\ ret = ctxErr
             \/ ret = BudgetExhausted
             \/ obs # <<>> /\ ret = Unwrapped(LastObs)
          /\ how = "result" => ret = Unwrapped(LastObs)
          /\ how = "exhausted" => (obs # <<>> /\ ret = LastObs)
          /\ how = "budget" => ret = BudgetExhausted
          /\ how \in {"ctx1", "ctx2", "ctx2late"} => (ctxErr # Nil /\ ret = ctxErr)
          /\ ret.id # 0 => ret.id = Len(obs)

\* two attempts failed with different errors and the cap is reached: Do has
\* returned the second one
C35_Witness ==
    /\ pc = "done" /\ how = "exhausted" /\ Len(obs) = 2
    /\ obs[1] = ErrorString(1) /\ obs[2] = ErrorString(2) /\ ret = obs[2]
    /\ ctxErr = Nil

\* C37 (as stated): Do returns nil only if the operation was invoked at least
\* once by this Do call and the result of the last attempt Do received is nil,
\* whatever the attempt cap and whatever errors the operation returns.
C37_Claim ==
    (pc = "done" /\ ret = Nil) => (obs # <<>> /\ LastObs = Nil)

C38_Claim ==
    attempt # NoAttempt => (jittered > 0 /\ pc # "panic")

\* C39 (as stated, for an operation that returns from every invocation, no
\* Timeout being needed then): with an attempt cap n > 0 Do eventually
\* returns.
C39_Claim ==
    opts.Attempts > 0 => <>(pc = "done")

\* C40: in every state an estimator reaches and for every timestamp, when
\* the bucket start of the timestamp is after lastUpdate the number n of
\* elapsed buckets forward computes is at least 1: its assertion does not fail
\* and forward does not panic.
C40_AssertionHolds ==
    \A t \in 0..(MaxRateTime + TicksPerSecond) :
        /\ ~forwardPanics(mr, t)
        /\ (mr.lastUpdate # ZeroTime /\ timeRoundDown(t, mr.BucketLength) > mr.lastUpdate)
           => /\ forwardN(mr, t) >= 1
              /\ forwardN(mr, t) = BucketOf(mr, t) - BucketOf(mr, mr.lastUpdate)

\* the estimator was last updated in the second half of a bucket, and was
\* brought there from an earlier bucket: a timestamp at the start of the next
\* bucket, nearer than one bucket, makes forward compute n = 1
C40_Witness ==
    /\ mr.lastUpdate # ZeroTime /\ nops >= 2 /\ mrop.appended >= 1
    /\ mr.lastUpdate = mrop.t
    /\ 2 * (mr.lastUpdate - timeRoundDown(mr.lastUpdate, mr.BucketLength)) >= mr.BucketLength
    /\ timeRoundDown(mr.lastUpdate + 1, mr.BucketLength) > mr.lastUpdate
    /\ forwardN(mr, mr.lastUpdate + 1) = 1

====
